---- MODULE Spec2Model ----
(***************************************************************************)
(* Model of src/webgl-demo.js: startup (main, initShaderProgram,           *)
(* loadShader, loadTexture), the three mouse handlers, the image onload    *)
(* callback and the render loop.                                           *)
(*                                                                         *)
(* Numbers.  rotationX/Y and velocityX/Y are JavaScript numbers.  They are *)
(* modelled as exact decimals: a Num is a function over 0..Digits whose    *)
(* limb 0 is a signed integer part and whose limbs 1..Digits are base-100  *)
(* fraction digits, value = SUM f[k] * 100^(-k).  0.01 and 0.95 are exact  *)
(* in this form, and so is every value the handlers can produce within     *)
(* MaxIdleTicks decay steps (Digits = MaxIdleTicks + 1).  IEEE-754         *)
(* rounding is not modelled; statements about the angles are statements in *)
(* exact arithmetic.                                                       *)
(***************************************************************************)
EXTENDS Integers, FiniteSets, Sequences, TLC

\* ---- bounds ------------------------------------------------------------
MaxIdleTicks == 10
MaxEvents == 3
\* largest argument isPowerOf2 is applied to on its own
MaxValue == 64

Digits == MaxIdleTicks + 1
Limbs == 0..Digits

\* pointer coordinates delivered by the browser (clientX, clientY)
Points == {<<100, 100>>, <<100, 110>>, <<150, 120>>}

\* (width, height) of the decoded image
ImageSizes == {<<256, 256>>, <<256, 200>>}

\* ---- exact decimal arithmetic -------------------------------------------
\* limb k keeps its last two digits and hands the rest to limb k - 1
CarryStep(g, k) == [g EXCEPT ![k] = g[k] % 100, ![k - 1] = g[k - 1] + (g[k] \div 100)]

\* carry propagation from limb k up; each step is computed once, on the value of f
RECURSIVE Carry(_, _)
Carry(f, k) ==
  IF k = 0 THEN f
  ELSE CHOOSE h \in {Carry(CarryStep(g, k), k - 1) : g \in {f}} : TRUE

Normalize(f) == Carry(f, Digits)

FromInt(n) == [k \in Limbs |-> IF k = 0 THEN n ELSE 0]

\* the literal 0.hh
Hundredths(h) == [k \in Limbs |-> IF k = 1 THEN h ELSE 0]

Zero == FromInt(0)

Add(a, b) == Normalize([k \in Limbs |-> a[k] + b[k]])

Neg(a) == Normalize([k \in Limbs |-> 0 - a[k]])

Sub(a, b) == Add(a, Neg(b))

\* integer n times the number a
Scale(n, a) == Normalize([k \in Limbs |-> n * a[k]])

RECURSIVE ConvSum(_, _, _, _)
ConvSum(a, b, k, i) ==
  IF i > k THEN 0 ELSE a[i] * b[k - i] + ConvSum(a, b, k, i + 1)

\* product of two numbers (limbs below 100^(-Digits) are dropped)
Mul(a, b) == Normalize([k \in Limbs |-> ConvSum(a, b, k, 0)])

RECURSIVE LeqFrom(_, _, _)
LeqFrom(a, b, k) ==
  IF k > Digits THEN TRUE
  ELSE IF a[k] # b[k] THEN a[k] < b[k]
  ELSE LeqFrom(a, b, k + 1)

Leq(a, b) == LeqFrom(a, b, 0)

Abs(a) == IF a[0] < 0 THEN Neg(a) ELSE a

\* ---- program constants ----------------------------------------------------
friction == Hundredths(95)

\* the factor 0.01 of the mousemove handler
sensitivity == Hundredths(1)

\* ---- state ------------------------------------------------------------------
VARIABLES
  dragging, lastMouseX, lastMouseY,     \* module-level lets
  rotationX, rotationY, velocityX, velocityY,
  mainState,      \* "init", "noContext", "threw", "running": how main() ended
  alerts,         \* messages passed to alert()
  glShaders,      \* the WebGLShader objects: "none", "compiled", "deleted" each
  glProgram,      \* the WebGLProgram object: "none", "created", "linkFailed", "linked"
  program,        \* programInfo.program: "unset", "null", "linked"
  locations,      \* programInfo.attribLocations/uniformLocations: "unset", "resolved", "missing"
  listening,      \* the canvas listeners are registered
  texture,        \* the WebGLTexture object
  image,          \* the Image: "none", "loading", "complete", "broken"
  rafPending,     \* callbacks queued with requestAnimationFrame
  then,           \* closure variable of render (now * 0.001), kept in thousandths of a second
  lastDraw,       \* arguments of the latest drawScene call, or NoDraw
  events,         \* number of pointer events handled
  velocityAge,    \* history: decay steps applied to the velocities since a move set them
  imageUploads,   \* number of texImage2D calls that wrote the decoded image
  dragStart,      \* history: angles at the pointer-down that began the drag, deltas since
  release,        \* history: angles and velocities at the latest pointer-up, idle ticks since
  call            \* an application of isPowerOf2 on its own: argument and result

vars == <<dragging, lastMouseX, lastMouseY, rotationX, rotationY, velocityX, velocityY,
          mainState, alerts, glShaders, glProgram, program, locations, listening, texture,
          image,
          rafPending, then, lastDraw, events, velocityAge, imageUploads, dragStart, release, call>>

orientation == <<dragging, lastMouseX, lastMouseY, rotationX, rotationY, velocityX, velocityY>>
startup == <<mainState, alerts, glShaders, glProgram, program, locations, listening>>

NoTexture == [data |-> "none", mipmaps |-> FALSE, wrapS |-> "REPEAT", wrapT |-> "REPEAT",
              minFilter |-> "NEAREST_MIPMAP_LINEAR", width |-> 0, height |-> 0]
NoDraw == [program |-> "none", texture |-> "none", rotationX |-> Zero, rotationY |-> Zero,
           calls |-> 0]
NoShaders == [vertex |-> "none", fragment |-> "none"]
NoDrag == [active |-> FALSE, rotationX |-> Zero, rotationY |-> Zero, sumDx |-> 0, sumDy |-> 0,
           moves |-> 0, framed |-> FALSE, velocityX |-> Zero, velocityY |-> Zero]
NoCall == [value |-> 0, done |-> FALSE, result |-> FALSE]
NoRelease == [n |-> -1, rotationX |-> Zero, rotationY |-> Zero, velocityX |-> Zero,
              velocityY |-> Zero, still |-> FALSE, downVelocityX |-> Zero, downVelocityY |-> Zero]

InitProgram ==
  /\ dragging = FALSE
  /\ lastMouseX = 0 /\ lastMouseY = 0
  /\ rotationX = Zero /\ rotationY = Zero
  /\ velocityX = Zero /\ velocityY = Zero
  /\ mainState = "init"
  /\ alerts = {}
  /\ glShaders = NoShaders
  /\ glProgram = "none"
  /\ program = "unset"
  /\ locations = "unset"
  /\ listening = FALSE
  /\ texture = NoTexture
  /\ image = "none"
  /\ rafPending = 0
  /\ then = 0
  /\ lastDraw = NoDraw
  /\ events = 0
  /\ velocityAge = 0
  /\ imageUploads = 0
  /\ dragStart = NoDrag
  /\ release = NoRelease

Init ==
  /\ InitProgram
  /\ call = NoCall

\* ---- startup ----------------------------------------------------------------
\* loadShader: compiled tells whether COMPILE_STATUS is set
loadShader(compiled) ==
  IF compiled THEN [shader |-> "shader", object |-> "compiled", alerts |-> {}]
  ELSE [shader |-> "null", object |-> "deleted", alerts |-> {"compile"}]

\* initShaderProgram.  nullable: the context's bindings accept null for an
\* object argument (recording INVALID_VALUE) instead of throwing a TypeError.
initShaderProgram(vsOk, fsOk, linkOk, nullable) ==
  LET vertexShader == loadShader(vsOk)
      fragmentShader == loadShader(fsOk)
      compileAlerts == vertexShader.alerts \cup fragmentShader.alerts
      shaders == [vertex |-> vertexShader.object, fragment |-> fragmentShader.object]
      attached == vertexShader.shader # "null" /\ fragmentShader.shader # "null"
      linked == attached /\ linkOk
  IN IF ~attached /\ ~nullable
       THEN [threw |-> TRUE, glShaders |-> shaders, glProgram |-> "created",
             alerts |-> compileAlerts, result |-> "null"]
     ELSE IF ~linked
       THEN [threw |-> FALSE, glShaders |-> shaders, glProgram |-> "linkFailed",
             alerts |-> compileAlerts \cup {"link"}, result |-> "null"]
     ELSE [threw |-> FALSE, glShaders |-> shaders, glProgram |-> "linked",
           alerts |-> compileAlerts, result |-> "linked"]

\* variant: no placeholder upload
loadTextureEmpty == NoTexture

\* loadTexture up to its return: the 1x1 placeholder upload and image.src = url
loadTexture ==
  [NoTexture EXCEPT !.data = "placeholder", !.width = 1, !.height = 1]

\* variant: two callbacks are queued
requestAnimationFrameTwice(pending) == pending + 2

\* requestAnimationFrame(render): one more callback is queued
requestAnimationFrame(pending) == pending + 1

main ==
  /\ mainState = "init"
  /\ \E ctxOk, vsOk, fsOk, linkOk, nullable, found \in BOOLEAN :
       LET sp == initShaderProgram(vsOk, fsOk, linkOk, nullable)
           locationsThrow == sp.result = "null" /\ ~nullable
           \* found: getAttribLocation/getUniformLocation resolve all seven names
           \* (they return -1 and null otherwise, and for a null program)
           resolved == sp.result = "linked" /\ found
       IN IF ~ctxOk
            THEN /\ mainState' = "noContext"
                 /\ alerts' = {"webgl"}
                 /\ UNCHANGED <<glShaders, glProgram, program, locations, listening, texture,
                                image, rafPending>>
          ELSE IF sp.threw \/ locationsThrow
            THEN /\ mainState' = "threw"
                 /\ alerts' = sp.alerts
                 /\ glShaders' = sp.glShaders
                 /\ glProgram' = sp.glProgram
                 /\ UNCHANGED <<program, locations, listening, texture, image, rafPending>>
          ELSE /\ mainState' = "running"
               /\ alerts' = sp.alerts
               /\ glShaders' = sp.glShaders
               /\ glProgram' = sp.glProgram
               /\ program' = sp.result
               /\ locations' = IF resolved THEN "resolved" ELSE "missing"
               /\ texture' = loadTexture
               /\ image' = "loading"
               /\ listening' = TRUE
               /\ rafPending' = requestAnimationFrame(rafPending)
  /\ UNCHANGED <<call, orientation, then, lastDraw, events, velocityAge, imageUploads, dragStart, release>>

\* ---- texture ------------------------------------------------------------------
RECURSIVE BitAnd(_, _)
BitAnd(a, b) ==
  IF a = 0 \/ b = 0 THEN 0
  ELSE (a % 2) * (b % 2) + 2 * BitAnd(a \div 2, b \div 2)

\* value - 1 is -1 for value 0; in 32-bit two's complement 0 & -1 = 0
isPowerOf2(value) ==
  IF value = 0 THEN TRUE ELSE BitAnd(value, value - 1) = 0

\* variant: one power-of-two dimension is enough for mipmaps
onloadTextureEither(old, size) ==
  LET uploaded == [old EXCEPT !.data = "image", !.width = size[1], !.height = size[2]]
  IN IF isPowerOf2(size[1]) \/ isPowerOf2(size[2])
       THEN [uploaded EXCEPT !.mipmaps = TRUE]
     ELSE [uploaded EXCEPT !.wrapS = "CLAMP_TO_EDGE", !.wrapT = "CLAMP_TO_EDGE",
                           !.minFilter = "LINEAR"]

\* what the handler writes into the texture for an image of the given size
onloadTexture(old, size) ==
  LET uploaded == [old EXCEPT !.data = "image", !.width = size[1], !.height = size[2]]
  IN IF isPowerOf2(size[1]) /\ isPowerOf2(size[2])
       THEN [uploaded EXCEPT !.mipmaps = TRUE]
     ELSE [uploaded EXCEPT !.wrapS = "CLAMP_TO_EDGE", !.wrapT = "CLAMP_TO_EDGE",
                           !.minFilter = "LINEAR"]

\* variant: the handler assigns image.src again, which restarts the load
onloadReloading ==
  /\ image = "loading"
  /\ \E size \in ImageSizes : texture' = onloadTexture(texture, size)
  /\ image' = "loading"
  /\ imageUploads' = imageUploads + 1
  /\ UNCHANGED <<call, orientation, startup, rafPending, then, lastDraw, events, velocityAge,
                 dragStart, release>>

onload ==
  /\ image = "loading"
  /\ \E size \in ImageSizes : texture' = onloadTexture(texture, size)
  /\ image' = "complete"
  /\ imageUploads' = imageUploads + 1
  /\ UNCHANGED <<call, orientation, startup, rafPending, then, lastDraw, events, velocityAge,
                 dragStart, release>>

\* variant: a failed load releases the texture
onerrorClears ==
  /\ image = "loading"
  /\ image' = "broken"
  /\ texture' = NoTexture
  /\ UNCHANGED <<call, orientation, startup, rafPending, then, lastDraw, events, velocityAge,
                 imageUploads, dragStart, release>>

\* the load fails: no onerror handler is installed
onerror ==
  /\ image = "loading"
  /\ image' = "broken"
  /\ UNCHANGED <<call, orientation, startup, texture, rafPending, then, lastDraw, events, velocityAge,
                 imageUploads, dragStart, release>>

\* ---- pointer handlers -----------------------------------------------------------
\* variant: pressing the button stops the rotation
mousedownStop(x, y) ==
  /\ listening
  /\ events < MaxEvents
  /\ dragging' = TRUE
  /\ lastMouseX' = x
  /\ lastMouseY' = y
  /\ events' = events + 1
  /\ dragStart' = IF dragging THEN dragStart
                  ELSE [active |-> TRUE, rotationX |-> rotationX, rotationY |-> rotationY,
                        sumDx |-> 0, sumDy |-> 0, moves |-> 0, framed |-> FALSE,
                        velocityX |-> velocityX, velocityY |-> velocityY]
  /\ release' = NoRelease
  /\ velocityX' = Zero
  /\ velocityY' = Zero
  /\ UNCHANGED <<call, rotationX, rotationY, startup, texture, image,
                 rafPending, then, lastDraw, velocityAge, imageUploads>>

\* the mousedown handler: dragging = true; lastMouseX/Y = e.clientX/Y
mousedown(x, y) ==
  /\ listening
  /\ events < MaxEvents
  /\ dragging' = TRUE
  /\ lastMouseX' = x
  /\ lastMouseY' = y
  /\ events' = events + 1
  /\ dragStart' = IF dragging THEN dragStart
                  ELSE [active |-> TRUE, rotationX |-> rotationX, rotationY |-> rotationY,
                        sumDx |-> 0, sumDy |-> 0, moves |-> 0, framed |-> FALSE,
                        velocityX |-> velocityX, velocityY |-> velocityY]
  /\ release' = NoRelease
  /\ UNCHANGED <<call, rotationX, rotationY, velocityX, velocityY, startup, texture, image,
                 rafPending, then, lastDraw, velocityAge, imageUploads>>

\* variant: releasing the button stops the rotation
mouseupStop ==
  /\ listening
  /\ events < MaxEvents
  /\ dragging' = FALSE
  /\ velocityX' = Zero
  /\ velocityY' = Zero
  /\ events' = events + 1
  /\ dragStart' = NoDrag
  /\ release' = [n |-> 0, rotationX |-> rotationX, rotationY |-> rotationY,
                 velocityX |-> velocityX, velocityY |-> velocityY,
                 still |-> dragStart.active /\ dragStart.moves = 0,
                 downVelocityX |-> dragStart.velocityX, downVelocityY |-> dragStart.velocityY]
  /\ UNCHANGED <<call, lastMouseX, lastMouseY, rotationX, rotationY,
                 startup, texture, image, rafPending, then, lastDraw, velocityAge, imageUploads>>

mouseup ==
  /\ listening
  /\ events < MaxEvents
  /\ dragging' = FALSE
  /\ events' = events + 1
  /\ dragStart' = NoDrag
  /\ release' = [n |-> 0, rotationX |-> rotationX, rotationY |-> rotationY,
                 velocityX |-> velocityX, velocityY |-> velocityY,
                 still |-> dragStart.active /\ dragStart.moves = 0,
                 downVelocityX |-> dragStart.velocityX, downVelocityY |-> dragStart.velocityY]
  /\ UNCHANGED <<call, lastMouseX, lastMouseY, rotationX, rotationY, velocityX, velocityY,
                 startup, texture, image, rafPending, then, lastDraw, velocityAge, imageUploads>>

\* variant: sensitivity 0.1
moveVelocityCoarse(delta) == Scale(delta, Hundredths(10))

\* variant: a fixed step whatever the pointer delta
moveVelocityUnit(delta) == sensitivity

\* velocity = delta * 0.01
moveVelocity(delta) == Scale(delta, sensitivity)

\* variant: the pointer position is recorded whether or not a drag is on
mousemoveTracking(x, y) ==
  /\ listening
  /\ events < MaxEvents
  /\ events' = events + 1
  /\ IF ~dragging
       THEN /\ lastMouseX' = x
            /\ lastMouseY' = y
            /\ UNCHANGED <<dragging, rotationX, rotationY, velocityX, velocityY, dragStart>>
     ELSE LET dx == x - lastMouseX
              dy == y - lastMouseY
              vY == moveVelocity(dx)
              vX == moveVelocity(dy)
          IN /\ velocityY' = vY
             /\ velocityX' = vX
             /\ rotationY' = Add(rotationY, vY)
             /\ rotationX' = Add(rotationX, vX)
             /\ lastMouseX' = x
             /\ lastMouseY' = y
             /\ dragStart' = [dragStart EXCEPT !.sumDx = @ + dx, !.sumDy = @ + dy,
                                               !.moves = @ + 1]
             /\ UNCHANGED dragging
  /\ velocityAge' = IF dragging THEN 0 ELSE velocityAge
  /\ release' = NoRelease
  /\ UNCHANGED <<call, startup, texture, image, rafPending, then, lastDraw, imageUploads>>

\* the mousemove handler: if (!dragging) return; velocities from the deltas,
\* angles advanced by them, position recorded
mousemove(x, y) ==
  /\ listening
  /\ events < MaxEvents
  /\ events' = events + 1
  /\ IF ~dragging
       THEN UNCHANGED <<orientation, dragStart>>
     ELSE LET dx == x - lastMouseX
              dy == y - lastMouseY
              vY == moveVelocity(dx)
              vX == moveVelocity(dy)
          IN /\ velocityY' = vY
             /\ velocityX' = vX
             /\ rotationY' = Add(rotationY, vY)
             /\ rotationX' = Add(rotationX, vX)
             /\ lastMouseX' = x
             /\ lastMouseY' = y
             /\ dragStart' = [dragStart EXCEPT !.sumDx = @ + dx, !.sumDy = @ + dy,
                                               !.moves = @ + 1]
             /\ UNCHANGED dragging
  /\ velocityAge' = IF dragging THEN 0 ELSE velocityAge
  /\ release' = NoRelease
  /\ UNCHANGED <<call, startup, texture, image, rafPending, then, lastDraw, imageUploads>>

\* ---- render loop ------------------------------------------------------------------
\* the timestamps, in milliseconds, the browser passes to the callback
Timestamps == {16}

\* variant: the decay block is not guarded
decaysAlways(d) == TRUE

\* the guard of the decay block: if (!dragging)
decays(d) == ~d

\* variant: friction 0.9
decayStepStrong(angle, velocity) ==
  [angle |-> Add(angle, velocity), velocity |-> Mul(velocity, Hundredths(90))]

\* variant: the velocity is decayed before it is added to the angle
decayStepSwapped(angle, velocity) ==
  [angle |-> Add(angle, Mul(velocity, friction)), velocity |-> Mul(velocity, friction)]

\* one axis of the decay block: angle += velocity; velocity *= friction
decayStep(angle, velocity) ==
  [angle |-> Add(angle, velocity), velocity |-> Mul(velocity, friction)]

\* variant: drawScene is called before the decay block
renderDrawFirst(now) ==
  /\ rafPending > 0
  /\ decays(dragging) => velocityAge < MaxIdleTicks /\ release.n < MaxIdleTicks
  /\ UNCHANGED <<call, dragging, lastMouseX, lastMouseY, startup, texture, image, events,
                 imageUploads>>
  /\ then' = now
  /\ rafPending' = requestAnimationFrame(rafPending - 1)
  /\ velocityAge' = IF decays(dragging) /\ <<velocityX, velocityY>> # <<Zero, Zero>>
                      THEN velocityAge + 1 ELSE velocityAge
  /\ release' = IF ~dragging /\ release.n >= 0 THEN [release EXCEPT !.n = @ + 1] ELSE release
  /\ dragStart' = IF dragging THEN [dragStart EXCEPT !.framed = TRUE] ELSE dragStart
  /\ IF decays(dragging)
       THEN \E sx \in {decayStep(rotationX, velocityX)}, sy \in {decayStep(rotationY, velocityY)} :
              /\ rotationX' = sx.angle
              /\ rotationY' = sy.angle
              /\ velocityX' = sx.velocity
              /\ velocityY' = sy.velocity
     ELSE UNCHANGED <<rotationX, rotationY, velocityX, velocityY>>
  /\ lastDraw' = [program |-> program, texture |-> texture.data,
                  rotationX |-> rotationX, rotationY |-> rotationY, calls |-> 1]

\* variant: the angles advance by velocity times the time since the last frame
renderTimeScaled(now) ==
  /\ rafPending > 0
  /\ decays(dragging) => velocityAge < MaxIdleTicks /\ release.n < MaxIdleTicks
  /\ UNCHANGED <<call, dragging, lastMouseX, lastMouseY, startup, texture, image, events,
                 imageUploads>>
  /\ then' = now
  /\ rafPending' = requestAnimationFrame(rafPending - 1)
  /\ velocityAge' = IF decays(dragging) /\ <<velocityX, velocityY>> # <<Zero, Zero>>
                      THEN velocityAge + 1 ELSE velocityAge
  /\ release' = IF ~dragging /\ release.n >= 0 THEN [release EXCEPT !.n = @ + 1] ELSE release
  /\ dragStart' = IF dragging THEN [dragStart EXCEPT !.framed = TRUE] ELSE dragStart
  /\ IF decays(dragging)
       THEN \E sx \in {decayStep(rotationX, velocityX)}, sy \in {decayStep(rotationY, velocityY)} :
              /\ rotationX' = Add(rotationX, Scale(now - then, velocityX))
              /\ rotationY' = Add(rotationY, Scale(now - then, velocityY))
              /\ velocityX' = sx.velocity
              /\ velocityY' = sy.velocity
     ELSE UNCHANGED <<rotationX, rotationY, velocityX, velocityY>>
  /\ lastDraw' = [program |-> program, texture |-> texture.data,
                  rotationX |-> rotationX', rotationY |-> rotationY', calls |-> 1]

\* one frame: now *= 0.001; deltaTime (unused); then = now; decay unless dragging;
\* drawScene; requestAnimationFrame(render)
render(now) ==
  /\ rafPending > 0
  /\ decays(dragging) => velocityAge < MaxIdleTicks /\ release.n < MaxIdleTicks
  /\ UNCHANGED <<call, dragging, lastMouseX, lastMouseY, startup, texture, image, events,
                 imageUploads>>
  /\ then' = now
  /\ rafPending' = requestAnimationFrame(rafPending - 1)
  /\ velocityAge' = IF decays(dragging) /\ <<velocityX, velocityY>> # <<Zero, Zero>>
                      THEN velocityAge + 1 ELSE velocityAge
  /\ release' = IF ~dragging /\ release.n >= 0 THEN [release EXCEPT !.n = @ + 1] ELSE release
  /\ dragStart' = IF dragging THEN [dragStart EXCEPT !.framed = TRUE] ELSE dragStart
  /\ IF decays(dragging)
       THEN \E sx \in {decayStep(rotationX, velocityX)}, sy \in {decayStep(rotationY, velocityY)} :
              /\ rotationX' = sx.angle
              /\ rotationY' = sy.angle
              /\ velocityX' = sx.velocity
              /\ velocityY' = sy.velocity
     ELSE UNCHANGED <<rotationX, rotationY, velocityX, velocityY>>
  /\ lastDraw' = [program |-> program, texture |-> texture.data,
                  rotationX |-> rotationX', rotationY |-> rotationY', calls |-> 1]

Frame == \E now \in Timestamps : render(now)

PointerDown == \E p \in Points : mousedown(p[1], p[2])
PointerMove == \E p \in Points : mousemove(p[1], p[2])

Next ==
  \/ main
  \/ onload
  \/ onerror
  \/ PointerDown
  \/ PointerMove
  \/ mouseup
  \/ Frame

Spec == Init /\ [][Next]_vars

\* ---- the running program after a first flick ------------------------------------------
\* timestamps of a browser whose frame intervals vary
FrameTimes == {16, 33}

FrameAny == \E now \in FrameTimes : render(now)

\* the state main leaves when everything succeeds, followed by the load of a
\* 256x256 image and by mousedown(100, 100), mousemove(150, 120), mouseup
\* before the first frame
InitFlick ==
  /\ dragging = FALSE
  /\ lastMouseX = 150 /\ lastMouseY = 120
  /\ rotationX = Hundredths(20) /\ rotationY = Hundredths(50)
  /\ velocityX = Hundredths(20) /\ velocityY = Hundredths(50)
  /\ mainState = "running"
  /\ alerts = {}
  /\ glShaders = [vertex |-> "compiled", fragment |-> "compiled"]
  /\ glProgram = "linked"
  /\ program = "linked"
  /\ locations = "resolved"
  /\ listening = TRUE
  /\ texture = onloadTexture(loadTexture, <<256, 256>>)
  /\ image = "complete"
  /\ rafPending = requestAnimationFrame(0)
  /\ then = 0
  /\ lastDraw = NoDraw
  /\ events = 0
  /\ velocityAge = 0
  /\ imageUploads = 1
  /\ dragStart = NoDrag
  /\ release = [NoRelease EXCEPT !.n = 0, !.rotationX = Hundredths(20),
                                 !.rotationY = Hundredths(50), !.velocityX = Hundredths(20),
                                 !.velocityY = Hundredths(50)]
  /\ call = NoCall

\* the image has loaded: its callbacks cannot run any more
NextFlick ==
  \/ PointerDown
  \/ PointerMove
  \/ mouseup
  \/ FrameAny

SpecFlick == InitFlick /\ [][NextFlick]_vars

\* the loop on its own: startup, the image callbacks, press and release at one
\* point, and frames scheduled fairly at varying intervals
NextLoop ==
  \/ main
  \/ onload
  \/ onerror
  \/ mousedown(100, 100)
  \/ mouseup
  \/ FrameAny

FairSpec == Init /\ [][NextLoop]_vars /\ WF_vars(FrameAny)

\* ---- isPowerOf2 on its own ---------------------------------------------------------
InitCall ==
  /\ InitProgram
  /\ call \in {[value |-> v, done |-> FALSE, result |-> FALSE] : v \in 0..MaxValue}

applyIsPowerOf2 ==
  /\ ~call.done
  /\ call' = [call EXCEPT !.done = TRUE, !.result = isPowerOf2(call.value)]
  /\ UNCHANGED <<orientation, startup, texture, image, rafPending, then, lastDraw, events,
                 velocityAge, imageUploads, dragStart, release>>

SpecIsPowerOf2 == InitCall /\ [][applyIsPowerOf2]_vars

\* ==== properties ==================================================================

\* ---- helpers of the properties ---------------------------------------------------
One == FromInt(1)

\* the decimal 0.abcd given as the integer abcd
Dec4(n) == [k \in Limbs |-> IF k = 1 THEN n \div 100 ELSE IF k = 2 THEN n % 100 ELSE 0]

\* half a unit of the fourth decimal
HalfUnit4 == [k \in Limbs |-> IF k = 3 THEN 50 ELSE 0]

\* a rounds to the four-decimal value b
Approx4(a, b) == Leq(Abs(Sub(a, b)), HalfUnit4)

RECURSIVE Binom(_, _)
Binom(n, k) == IF k = 0 THEN 1 ELSE (Binom(n, k - 1) * (n - k + 1)) \div k

RECURSIVE IntPow(_, _)
IntPow(b, k) == IF k = 0 THEN 1 ELSE b * IntPow(b, k - 1)

\* 0.95^n by the binomial expansion of (1 - 5/100)^n
FrictionPower ==
  [n \in 0..MaxIdleTicks |->
     Normalize([k \in Limbs |->
       IF k <= n THEN (IF k % 2 = 0 THEN 1 ELSE -1) * Binom(n, k) * IntPow(5, k) ELSE 0])]

\* a0 + v0 * (1 - 0.95^n) / (1 - 0.95)
GeometricAngle(a0, v0, n) == Add(a0, Scale(20, Mul(v0, Sub(One, FrictionPower[n]))))

Drawn == lastDraw # NoDraw

\* ---- C1 --------------------------------------------------------------------------
\* C1: when the fragment shader failed to compile, linkProgram was not called,
\* the compile error was reported, main did not go on to start the render loop,
\* and no draw is issued.
C1_CompileFailureHalts ==
  glShaders.fragment = "deleted" =>
    /\ "compile" \in alerts
    /\ glProgram \notin {"linkFailed", "linked"}
    /\ mainState # "running"
    /\ rafPending = 0
    /\ ~Drawn

\* ---- C2 --------------------------------------------------------------------------
\* C2: every draw uses a pipeline that linked; after a failed link no frame
\* tick calls drawScene.
C2_DrawOnlyLinked ==
  /\ Drawn => lastDraw.program = "linked"
  /\ glProgram = "linkFailed" => ~Drawn

\* ---- C3 --------------------------------------------------------------------------
\* C3: during a drag, yaw has grown since the pointer-down by exactly the sum
\* of the moves' horizontal deltas times 0.01 and pitch by the sum of the
\* vertical deltas times 0.01, whatever frame ticks ran in between.
C3_DragAccumulates ==
  dragStart.active =>
    /\ dragging
    /\ rotationY = Add(dragStart.rotationY, Normalize(Hundredths(dragStart.sumDx)))
    /\ rotationX = Add(dragStart.rotationX, Normalize(Hundredths(dragStart.sumDy)))

C3_Witness ==
  /\ dragStart.active
  /\ dragStart.moves >= 2
  /\ dragStart.framed
  /\ dragStart.sumDx # 0
  /\ dragStart.sumDy # 0
  /\ velocityY # Normalize(Hundredths(dragStart.sumDx))

\* ---- C4 --------------------------------------------------------------------------
\* C4: a pointer-move at (x, y) while dragging sets the yaw velocity to
\* (x - lastMouseX) * 0.01 and the pitch velocity to (y - lastMouseY) * 0.01,
\* adds those velocities to yaw and pitch, and records (x, y); the move from
\* (100,100) to (150,120) gives velocities 0.5 and 0.2.
C4_MoveStep ==
  \A p \in Points :
    (dragging /\ mousemove(p[1], p[2])) =>
      /\ velocityY' = Normalize(Hundredths(p[1] - lastMouseX))
      /\ velocityX' = Normalize(Hundredths(p[2] - lastMouseY))
      /\ rotationY' = Add(rotationY, velocityY')
      /\ rotationX' = Add(rotationX, velocityX')
      /\ lastMouseX' = p[1] /\ lastMouseY' = p[2]
      /\ (lastMouseX = 100 /\ lastMouseY = 100 /\ p = <<150, 120>>) =>
           /\ velocityY' = Hundredths(50)
           /\ velocityX' = Hundredths(20)
           /\ Sub(rotationY', rotationY) = Hundredths(50)
           /\ Sub(rotationX', rotationX) = Hundredths(20)

C4_MoveSetsVelocity == [][C4_MoveStep]_vars

C4_Witness ==
  /\ dragging
  /\ dragStart.moves >= 2
  /\ lastMouseX = 150 /\ lastMouseY = 120
  /\ velocityY = Hundredths(50) /\ velocityX = Hundredths(20)
  /\ dragStart.sumDx = 0 /\ dragStart.sumDy = 0

\* ---- C5 --------------------------------------------------------------------------
\* C5: a frame tick that runs while dragging changes none of pitch, yaw, the
\* velocities, the dragging flag and the last pointer coordinates.
C5_NoDecayWhileDragging == [][(dragging /\ Frame) => UNCHANGED orientation]_vars

C5_Witness ==
  /\ dragging
  /\ dragStart.moves = 1
  /\ dragStart.framed
  /\ velocityX # Zero /\ velocityY # Zero
  /\ Drawn
  /\ lastDraw.rotationX = rotationX /\ lastDraw.rotationY = rotationY

\* ---- C6 --------------------------------------------------------------------------
\* C6: n idle ticks after a pointer-up with velocity v0 and angle a0 leave, on
\* each axis, velocity = v0 * 0.95^n and angle = a0 + v0 * (1 - 0.95^n) / 0.05,
\* and the angle has moved by at most 20 * |v0|.
C6_GeometricDecay ==
  release.n >= 0 =>
    /\ velocityX = Mul(release.velocityX, FrictionPower[release.n])
    /\ velocityY = Mul(release.velocityY, FrictionPower[release.n])
    /\ rotationX = GeometricAngle(release.rotationX, release.velocityX, release.n)
    /\ rotationY = GeometricAngle(release.rotationY, release.velocityY, release.n)
    /\ Leq(Abs(Sub(rotationX, release.rotationX)), Scale(20, Abs(release.velocityX)))
    /\ Leq(Abs(Sub(rotationY, release.rotationY)), Scale(20, Abs(release.velocityY)))

C6_Witness ==
  /\ release.n >= 3
  /\ release.velocityX # Zero
  /\ release.velocityY[0] < 0
  /\ release.rotationX # Zero

\* ---- C7 --------------------------------------------------------------------------
\* the case of C7: ten idle ticks after a pointer-up with pitch velocity 0.1
\* and yaw velocity 0
C7_Case ==
  /\ release.n = 10
  /\ release.velocityX = Hundredths(10)
  /\ release.velocityY = Zero

\* C7 as stated: in that case pitch has grown by 0.3487 and the pitch velocity
\* is 0.0599 (to four decimals), yaw and yaw velocity are as at the pointer-up.
C7_AsStated ==
  C7_Case =>
    /\ Approx4(Sub(rotationX, release.rotationX), Dec4(3487))
    /\ Approx4(velocityX, Dec4(599))
    /\ rotationY = release.rotationY
    /\ velocityY = Zero

\* C7 amended: in that case pitch has grown by 0.8025 and the pitch velocity
\* is 0.0599 (to four decimals), yaw and yaw velocity are as at the pointer-up.
C7_TenIdleTicks ==
  C7_Case =>
    /\ Approx4(Sub(rotationX, release.rotationX), Dec4(8025))
    /\ Approx4(velocityX, Dec4(599))
    /\ rotationY = release.rotationY
    /\ velocityY = Zero

C7_Witness ==
  /\ C7_Case
  /\ ~dragging
  /\ Drawn

\* ---- C8 --------------------------------------------------------------------------
\* C8: a pointer-up leaves dragging false and changes no angle, velocity or
\* last pointer coordinate, whether it arrives while dragging or idle.
C8_PointerUp ==
  [][mouseup =>
       /\ dragging' = FALSE
       /\ UNCHANGED <<lastMouseX, lastMouseY, rotationX, rotationY, velocityX, velocityY>>]_vars

C8_Witness ==
  /\ release.n = 0
  /\ ~dragging
  /\ velocityX # Zero /\ velocityY # Zero
  /\ velocityX = release.velocityX /\ velocityY = release.velocityY

\* ---- C9 --------------------------------------------------------------------------
\* C9: the decoded image is written into the texture at most once, and a
\* texture that holds the image never changes again.
C9_LoadsOnce ==
  [][/\ imageUploads' <= 1
     /\ texture.data = "image" => texture' = texture]_vars

C9_Witness ==
  /\ imageUploads = 1
  /\ texture.data = "image"
  /\ image = "complete"
  /\ Drawn
  /\ events >= 2
  /\ lastDraw.texture = "image"

\* ---- C10 -------------------------------------------------------------------------
\* C10: the texture passed to every draw holds pixel data, and whenever a
\* frame callback is scheduled the texture already holds pixel data.
C10_TextureAlwaysValid ==
  /\ Drawn => lastDraw.texture \in {"placeholder", "image"}
  /\ rafPending > 0 => texture.data \in {"placeholder", "image"}

C10_Witness ==
  /\ Drawn
  /\ image = "loading"
  /\ lastDraw.texture = "placeholder"

\* ---- C11 -------------------------------------------------------------------------
\* v is a power of two: 1, 2, 4, ...
IsPowerOfTwo(v) == \E k \in 0..30 : v = IntPow(2, k)

C12_Step ==
  image = "broken" =>
    /\ image' = "broken"
    /\ texture' = texture
    /\ alerts' = alerts
    /\ rafPending' = rafPending
    /\ Frame => (Drawn' /\ lastDraw'.texture = "placeholder")

\* C12: after a failed image load the texture is the placeholder in every
\* later state, nothing is reported, one frame callback stays scheduled and
\* every frame tick draws with the placeholder.
C12_LoadFailureIsSilent ==
  /\ [](image = "broken" =>
          /\ texture.data = "placeholder"
          /\ imageUploads = 0
          /\ rafPending = 1
          /\ Drawn => lastDraw.texture = "placeholder")
  /\ [][C12_Step]_vars

C12_Witness ==
  /\ image = "broken"
  /\ texture.data = "placeholder"
  /\ Drawn
  /\ events >= 2
  /\ release.n >= 1

\* ---- C13 -------------------------------------------------------------------------
\* C13: when the program linked and an attribute or uniform location is
\* missing, startup does not go on: the render loop is not started and nothing
\* is drawn.
C13_MissingLocationIsFatal ==
  (glProgram = "linked" /\ locations = "missing") =>
    /\ mainState # "running"
    /\ rafPending = 0
    /\ ~Drawn

\* ---- C14 -------------------------------------------------------------------------
\* C14: once main has run, no program object whose link failed is left
\* allocated.
C14_FailedLinkReleasesProgram ==
  mainState # "init" => glProgram # "linkFailed"

\* ---- C17 -------------------------------------------------------------------------
\* C17: isPowerOf2 answers true exactly for the powers of two, 0 and 1 included.
C17_IsPowerOf2Exact ==
  call.done => (call.result <=> IsPowerOfTwo(call.value))

\* the state InitFlick starts from, as the program reaches it
FlickReached ==
  /\ events = 3
  /\ ~dragging
  /\ lastMouseX = 150 /\ lastMouseY = 120
  /\ rotationX = Hundredths(20) /\ rotationY = Hundredths(50)
  /\ velocityX = Hundredths(20) /\ velocityY = Hundredths(50)
  /\ mainState = "running" /\ alerts = {} /\ glProgram = "linked" /\ program = "linked"
  /\ glShaders = [vertex |-> "compiled", fragment |-> "compiled"]
  /\ locations = "resolved" /\ listening
  /\ texture = onloadTexture(loadTexture, <<256, 256>>) /\ image = "complete"
  /\ rafPending = 1
  /\ then = 0 /\ lastDraw = NoDraw /\ velocityAge = 0 /\ imageUploads = 1
  /\ dragStart = NoDrag /\ call = NoCall
  /\ release = [NoRelease EXCEPT !.n = 0, !.rotationX = Hundredths(20),
                                 !.rotationY = Hundredths(50), !.velocityX = Hundredths(20),
                                 !.velocityY = Hundredths(50)]

\* ---- C15 -------------------------------------------------------------------------
\* the model stops an idle loop here: the velocities have no digit left
IdleBound ==
  /\ ~dragging
  /\ velocityAge >= MaxIdleTicks \/ release.n >= MaxIdleTicks

\* C15: every frame tick leaves exactly one callback scheduled, never more
\* than one callback is pending, one is pending whenever main started the
\* loop, and with a fair scheduler frame ticks occur infinitely often unless
\* the loop was never started (IdleBound is where the model stops counting
\* idle ticks).
C15_LoopNeverStops ==
  /\ [](rafPending <= 1 /\ (mainState = "running" => rafPending = 1))
  /\ [][rafPending' # 1 => ~FrameAny]_vars
  /\ []<><<FrameAny>>_vars \/ <>[](rafPending = 0 \/ IdleBound)

C15_Witness ==
  /\ rafPending = 1
  /\ Drawn
  /\ then = 33
  /\ dragging
  /\ dragStart.framed
  /\ image = "complete"

\* ---- C16 -------------------------------------------------------------------------
\* the orientation a frame tick leaves, computed from the orientation before it alone
TickOrientation ==
  IF dragging THEN orientation
  ELSE <<dragging, lastMouseX, lastMouseY,
         Add(rotationX, velocityX), Add(rotationY, velocityY),
         Mul(velocityX, friction), Mul(velocityY, friction)>>

\* C16: the orientation after a frame tick is a function of the orientation
\* before it only: whatever timestamp the tick carries and whatever timestamp
\* the previous tick left in `then`, pitch, yaw, velocities and dragging flag
\* come out the same.
C16_TimestampFree ==
  [][\A now \in FrameTimes : render(now) => orientation' = TickOrientation]_vars

\* two idle ticks have decayed a velocity, the later one at timestamp 33
C16_Witness ==
  /\ ~dragging
  /\ then = 33
  /\ velocityAge >= 2
  /\ velocityY # Zero
  /\ Drawn

\* ---- C18 -------------------------------------------------------------------------
\* C18: a frame tick makes exactly one draw call, with the angles its own decay
\* step has left: on an idle tick the angles before the tick plus the
\* velocities before the decay; during a drag the angles at the pointer-down
\* plus every move delta received since, none of them lost.
C18_DecayThenDraw ==
  [][\A now \in FrameTimes :
       render(now) =>
         /\ lastDraw'.calls = 1
         /\ lastDraw'.rotationX = rotationX'
         /\ lastDraw'.rotationY = rotationY'
         /\ ~dragging =>
              /\ lastDraw'.rotationX = Add(rotationX, velocityX)
              /\ lastDraw'.rotationY = Add(rotationY, velocityY)
         /\ dragStart.active =>
              /\ lastDraw'.rotationY =
                   Add(dragStart.rotationY, Normalize(Hundredths(dragStart.sumDx)))
              /\ lastDraw'.rotationX =
                   Add(dragStart.rotationX, Normalize(Hundredths(dragStart.sumDy)))]_vars

\* an idle tick after pointer events has drawn angles that moved in that tick
C18_Witness ==
  /\ ~dragging
  /\ events >= 2
  /\ release.n = 1
  /\ lastDraw.calls = 1
  /\ lastDraw.rotationX = rotationX
  /\ lastDraw.rotationX # release.rotationX
  /\ lastDraw.rotationY # release.rotationY

\* ---- C19 -------------------------------------------------------------------------
\* C19: a pointer-move handled while no drag is on leaves pitch, yaw, both
\* velocities, the dragging flag and the recorded pointer position as they were.
C19_IdleMoveIgnored ==
  [][\A p \in Points :
       (~dragging /\ mousemove(p[1], p[2])) => UNCHANGED orientation]_vars

\* a move was handled while idle, with the cube still turning and the pointer
\* away from the recorded position
C19_Witness ==
  /\ ~dragging
  /\ events >= 1
  /\ release = NoRelease
  /\ dragStart = NoDrag
  /\ velocityY # Zero
  /\ <<lastMouseX, lastMouseY>> = <<150, 120>>

\* ---- C20 -------------------------------------------------------------------------
\* C20: a pointer-down sets the dragging flag and records the event's
\* coordinates, and changes neither angle nor velocity; after a press and
\* release with no move in between the velocities are those held before the
\* press and the next idle tick decays from them; a frame tick during a drag
\* leaves the velocities alone, so the velocities a move has set are still
\* undecayed however many ticks run before the release.
C20_PressKeepsVelocity ==
  /\ [][\A p \in Points :
          mousedown(p[1], p[2]) =>
            /\ dragging'
            /\ lastMouseX' = p[1]
            /\ lastMouseY' = p[2]
            /\ UNCHANGED <<rotationX, rotationY, velocityX, velocityY>>]_vars
  /\ [](release.still =>
          /\ release.velocityX = release.downVelocityX
          /\ release.velocityY = release.downVelocityY
          /\ release.n = 0 => /\ velocityX = release.downVelocityX
                              /\ velocityY = release.downVelocityY
          /\ release.n = 1 => /\ velocityX = Mul(release.downVelocityX, friction)
                              /\ velocityY = Mul(release.downVelocityY, friction)
                              /\ rotationX = Add(release.rotationX, release.downVelocityX)
                              /\ rotationY = Add(release.rotationY, release.downVelocityY))
  /\ [][(dragging /\ FrameAny) => UNCHANGED <<velocityX, velocityY>>]_vars
  /\ []((dragging /\ dragStart.moves > 0) => velocityAge = 0)

\* a press and release without a move, then one idle tick, with the cube
\* turning on both axes before the press
C20_Witness ==
  /\ ~dragging
  /\ release.still
  /\ release.n = 1
  /\ release.downVelocityX # Zero
  /\ release.downVelocityY # Zero
  /\ velocityY = Mul(release.downVelocityY, friction)

====
